---- MODULE Spec2Model ----
(***************************************************************************)
(* Client-side cache of the gardener dashboard kube-client:               *)
(* Store (cache/Store.js), Informer (cache/Informer.js) and the           *)
(* Reflector with its BackoffManager (cache/Reflector.js, kept in         *)
(* src/unnamed/part_001).                                                 *)
(*                                                                         *)
(* The Reflector's async functions are modelled by a program counter pc   *)
(* that names the await the run() call is suspended at.  One action is    *)
(* the synchronous code executed between two awaits.  LIST responses,     *)
(* watch events and error classes are inputs chosen by the environment.   *)
(* Locals of listAndWatch and watchHandler are reset to a dead value when *)
(* the code no longer reads them.                                         *)
(***************************************************************************)
EXTENDS Integers, Sequences, FiniteSets, TLC

(* ------------------------------ bounds -------------------------------- *)
MaxItems == 2     \* items carried by one LIST response / one replace call
MaxSteps == 6     \* awaits of one run() that complete (responses, events, ended sleeps)
MaxAttempts == 10 \* duration() calls a direct caller of a BackoffManager makes without a reset
RandomSteps == 4  \* Math.random() draws are the multiples of 1/RandomSteps in [0, 1)
RandomizeSteps == 2400 \* the draws randomize() takes are the multiples of 1/RandomizeSteps in [0, 1)

(* ------------------------------ domains ------------------------------- *)
Keys == {"a", "b"}
ResourceVersions == {"1", "2"}
NoResourceVersion == ""
Dead == "-"
Absent == [uid |-> "absent", rv |-> "absent"]
ListObjects == [uid : Keys, rv : ResourceVersions]
Objects == [uid : Keys, rv : ResourceVersions \cup {NoResourceVersion}]

RECURSIVE SeqsUpTo(_, _)
SeqsUpTo(S, n) ==
  IF n = 0 THEN {<<>>}
  ELSE LET shorter == SeqsUpTo(S, n - 1)
       IN  shorter \cup {Append(s, x) : s \in {t \in shorter : Len(t) = n - 1}, x \in S}

ItemLists == SeqsUpTo(ListObjects, MaxItems)
ReplaceArgs == SeqsUpTo(Objects, MaxItems)

ListErrors == {"expired", "tooLarge", "other"}
WatchErrors == {"refused", "expired", "other"}
EventTypes == {"ADDED", "MODIFIED", "DELETED", "BOOKMARK", "UNKNOWN"}
BookmarkObjects == {o \in Objects : o.uid = "a"}

WatchEvents ==
  {[type |-> t, match |-> TRUE, object |-> o, err |-> "none"] :
      t \in {"ADDED", "MODIFIED", "DELETED"}, o \in Objects}
  \cup
  {[type |-> t, match |-> TRUE, object |-> o, err |-> "none"] :
      t \in {"BOOKMARK", "UNKNOWN"}, o \in BookmarkObjects}
  \cup
  {[type |-> t, match |-> FALSE, object |-> o, err |-> "none"] :
      t \in EventTypes, o \in BookmarkObjects}
  \cup
  {[type |-> t, match |-> TRUE, object |-> Absent, err |-> e] :
      t \in {"ERROR", "RawError"}, e \in WatchErrors}

(* Options of the BackoffManager constructor.  factor is the fraction      *)
(* num/den, jitter the fraction jt/10.                                     *)
DefaultOptions == [min |-> 800, max |-> 15000, num |-> 3, den |-> 2, jt |-> 1]
BackoffOptions ==
  {[min |-> m.min, max |-> m.max, num |-> f.num, den |-> f.den, jt |-> j] :
      m \in {[min |-> 800, max |-> 15000], [min |-> 1, max |-> 8], [min |-> 3, max |-> 3],
             [min |-> 5, max |-> 3], [min |-> 2, max |-> 9]},
      f \in {[num |-> 3, den |-> 2], [num |-> 2, den |-> 1]},
      j \in {0, 1, 2, 3, 5, 10, 20}}
RandomDraws == 0..(RandomSteps - 1)

VARIABLES
  store,          \* Store[kStore]: key -> object, Absent when the key is not in the Map
  hasSynced,      \* Store[kHasSynced]: "pending" or the value the promise resolved with
  sink,           \* which sink object the Reflector was constructed with
  agent,          \* listWatcher.agent: "none", "alive" or "destroyed"
  aborted,        \* the AbortController of Informer.run has been aborted
  isLastSyncResourceVersionUnavailable,
  lastSyncResourceVersion,
  paginatedResult,
  stopRequested,
  attempt,        \* BackoffManager.attempt
  timeoutId,      \* BackoffManager: TRUE while the timer that timeoutId names is pending
  pendingTimers,  \* reset timers that are set and have neither fired nor been cleared
  pc,             \* the await Reflector.run() is suspended at
  optionsRV,      \* listAndWatch local: options.resourceVersion of the first LIST
  pageSize,       \* listAndWatch local: pager.pageSize ("default" or "0")
  requestRV,      \* resourceVersion sent with the LIST or watch request that is awaited
  count,          \* watchHandler local: events consumed from the current stream
  config,         \* BackoffManager: min, max, factor (num/den) and jitter (jt/10)
  listsInFlight,  \* pager.list calls that have not settled
  watchesOpen,    \* listWatcher.watch calls whose request or stream has not ended
  (* history variables, not program state *)
  call,           \* the Store/sink method the latest step called, with its argument
  input,          \* the response, event or error the latest step consumed
  ended,          \* whether and how listAndWatch ended in the latest step
  delay,          \* the duration() call of the latest step, with the value a direct caller got
  randomized,     \* the randomize() call of the latest step, with its argument, draw and result
  emitted,        \* the events the Informer emitted in the latest step, in order
  replaced,       \* replace has been called at least once
  listed,         \* a LIST request has resolved successfully at least once
  round,          \* listAndWatch invocations started
  steps           \* awaits of run() completed so far

storeVars == <<store, hasSynced>>
sinkHist == <<call, replaced, emitted>>
cursorVars == <<isLastSyncResourceVersionUnavailable, lastSyncResourceVersion, paginatedResult>>
backoffVars == <<attempt, timeoutId, pendingTimers>>
localVars == <<optionsRV, pageSize, requestRV, count>>
envVars == <<sink, agent, aborted, config, randomized>>
budgetVars == <<round, steps>>
requestVars == <<listsInFlight, watchesOpen>>
reflectorVars == <<cursorVars, stopRequested, backoffVars, pc, localVars, envVars, budgetVars, input, listed,
                   requestVars, ended, delay>>
vars == <<storeVars, sinkHist, reflectorVars>>

NoCall == [op |-> "none"]
NoInput == [kind |-> "none"]
NoDelay == [called |-> FALSE]
NoRandomize == [called |-> FALSE]
NoEvent == <<>>

(* ------------------------------- Store -------------------------------- *)
kKeyFunc(object) == object.uid

EmptyMap == [k \in Keys |-> Absent]

MapSet(m, object) == [m EXCEPT ![kKeyFunc(object)] = object]

MapDeleteKeepsEntry(m, object) == m

MapDelete(m, object) == [m EXCEPT ![kKeyFunc(object)] = Absent]

RECURSIVE InsertAll(_, _)
InsertAll(m, items) ==
  IF items = <<>> THEN m ELSE InsertAll(MapSet(m, Head(items)), Tail(items))

ReplaceKeepsOldKeys(m, items) == InsertAll(m, items)

ReplaceMap(m, items) == InsertAll(EmptyMap, items)

SetSyncedRecreates(p, value) == IF p = "pending" THEN value ELSE "pending"

kSetSynced(p, value) == IF p = "pending" THEN value ELSE p

listKeys(m) == {k \in Keys : m[k] # Absent}

Store_add(object) ==
  /\ store' = MapSet(store, object)
  /\ UNCHANGED hasSynced
  /\ call' = [op |-> "add", object |-> object]
  /\ UNCHANGED replaced
  /\ emitted' = NoEvent

Store_update(object) ==
  /\ store' = MapSet(store, object)
  /\ UNCHANGED hasSynced
  /\ call' = [op |-> "update", object |-> object]
  /\ UNCHANGED replaced
  /\ emitted' = NoEvent

Store_delete(object) ==
  /\ store' = MapDelete(store, object)
  /\ UNCHANGED hasSynced
  /\ call' = [op |-> "delete", object |-> object]
  /\ UNCHANGED replaced
  /\ emitted' = NoEvent

Store_replace(items) ==
  /\ store' = ReplaceMap(store, items)
  /\ hasSynced' = kSetSynced(hasSynced, "true")
  /\ call' = [op |-> "replace", items |-> items]
  /\ replaced' = TRUE
  /\ emitted' = NoEvent

Store_clear ==
  /\ store' = EmptyMap
  /\ UNCHANGED hasSynced
  /\ call' = [op |-> "clear"]
  /\ UNCHANGED replaced
  /\ emitted' = NoEvent

NoSinkCall ==
  /\ UNCHANGED storeVars
  /\ call' = NoCall
  /\ UNCHANGED replaced
  /\ emitted' = NoEvent

(* Direct calls of the Store methods by a caller that owns the Store. *)
CallAdd == \E o \in Objects :
  /\ Store_add(o)
  /\ UNCHANGED reflectorVars

CallUpdate == \E o \in Objects :
  /\ Store_update(o)
  /\ UNCHANGED reflectorVars

CallDelete == \E o \in Objects :
  /\ Store_delete(o)
  /\ UNCHANGED reflectorVars

CallReplace == \E items \in ReplaceArgs :
  /\ Store_replace(items)
  /\ UNCHANGED reflectorVars

CallClear ==
  /\ Store_clear
  /\ UNCHANGED reflectorVars

(* ------------------------------ Informer ----------------------------- *)
(* what the listeners of the emitted event do: there is none, all return,  *)
(* or one throws, and then emit throws to the sink method's caller          *)
Subscribers == {"none", "returns", "throws"}

(* informer.emit(name, payload): the event, with the Store as its listeners *)
(* find it at that moment                                                   *)
Emit(name, payload, m, synced, subscriber) ==
  [name |-> name, payload |-> payload, store |-> m, hasSynced |-> synced,
   threw |-> (subscriber = "throws")]

(* the event is emitted before the Store is changed *)
Sink_addEmitsFirst(object, subscriber) ==
  /\ store' = MapSet(store, object)
  /\ UNCHANGED hasSynced
  /\ call' = [op |-> "add", object |-> object]
  /\ UNCHANGED replaced
  /\ emitted' = <<Emit("ADD", object, store, hasSynced, subscriber)>>

Sink_add(object, subscriber) ==
  /\ store' = MapSet(store, object)
  /\ UNCHANGED hasSynced
  /\ call' = [op |-> "add", object |-> object]
  /\ UNCHANGED replaced
  /\ emitted' = <<Emit("ADD", object, store', hasSynced', subscriber)>>

Sink_update(object, subscriber) ==
  /\ store' = MapSet(store, object)
  /\ UNCHANGED hasSynced
  /\ call' = [op |-> "update", object |-> object]
  /\ UNCHANGED replaced
  /\ emitted' = <<Emit("UPDATE", object, store', hasSynced', subscriber)>>

Sink_delete(object, subscriber) ==
  /\ store' = MapDelete(store, object)
  /\ UNCHANGED hasSynced
  /\ call' = [op |-> "delete", object |-> object]
  /\ UNCHANGED replaced
  /\ emitted' = <<Emit("DELETE", object, store', hasSynced', subscriber)>>

Sink_replace(items, subscriber) ==
  /\ store' = ReplaceMap(store, items)
  /\ hasSynced' = kSetSynced(hasSynced, "true")
  /\ call' = [op |-> "replace", items |-> items]
  /\ replaced' = TRUE
  /\ emitted' = <<Emit("REPLACE", items, store', hasSynced', subscriber)>>

(* Direct calls of the four methods of the sink the Informer hands to its Reflector. *)
SinkAdd == \E o \in Objects, subscriber \in Subscribers :
  /\ Sink_add(o, subscriber)
  /\ UNCHANGED reflectorVars

SinkUpdate == \E o \in Objects, subscriber \in Subscribers :
  /\ Sink_update(o, subscriber)
  /\ UNCHANGED reflectorVars

SinkDelete == \E o \in Objects, subscriber \in Subscribers :
  /\ Sink_delete(o, subscriber)
  /\ UNCHANGED reflectorVars

SinkReplace == \E items \in ReplaceArgs, subscriber \in Subscribers :
  /\ Sink_replace(items, subscriber)
  /\ UNCHANGED reflectorVars

(* --------------------------- BackoffManager --------------------------- *)
RECURSIVE Pow(_, _)
Pow(b, n) == IF n = 0 THEN 1 ELSE b * Pow(b, n - 1)

Min(a, b) == IF a <= b THEN a ELSE b

(* the constructor: a jitter outside (0, 1] is replaced by 0 *)
NewBackoffManager(options) ==
  [options EXCEPT !.jt = IF options.jt > 0 /\ options.jt <= 10 THEN options.jt ELSE 0]

(* factor^n <= max / min, in integers *)
PowerAtMostRatio(c, n) ==
  IF n >= 0 THEN c.min * Pow(c.num, n) <= c.max * Pow(c.den, n)
  ELSE c.min * Pow(c.den, 0 - n) <= c.max * Pow(c.num, 0 - n)

(* Math.floor(Math.log(max / min) / Math.log(factor)) for factor > 1: the   *)
(* integer n with factor^n <= max / min < factor^(n + 1)                    *)
RECURSIVE LogFloorFrom(_, _)
LogFloorFrom(c, n) ==
  IF ~PowerAtMostRatio(c, n) THEN LogFloorFrom(c, n - 1)
  ELSE IF PowerAtMostRatio(c, n + 1) THEN LogFloorFrom(c, n + 1)
  ELSE n

LogFloorOneLess(c) == LogFloorFrom(c, 0) - 1

LogFloor(c) == LogFloorFrom(c, 0)

(* the result is not clamped to max *)
DurationValueNoClamp(c, n, r) ==
  IF n > LogFloor(c) THEN c.max
  ELSE LET scaled == c.min * Pow(c.num, n)
       IN  IF c.jt # 0
           THEN ((10 * RandomSteps + c.jt * (2 * r - RandomSteps)) * scaled)
                  \div (10 * RandomSteps * Pow(c.den, n))
           ELSE scaled \div Pow(c.den, n)

(* the noise is not added to 1 *)
DurationValueJitterOnly(c, n, r) ==
  IF n > LogFloor(c) THEN c.max
  ELSE LET scaled == c.min * Pow(c.num, n)
           d == IF c.jt # 0
                THEN ((c.jt * (2 * r - RandomSteps)) * scaled)
                       \div (10 * RandomSteps * Pow(c.den, n))
                ELSE scaled \div Pow(c.den, n)
       IN  Min(d, c.max)

(* the value duration() returns for the captured attempt and the draw r / RandomSteps *)
DurationValue(c, n, r) ==
  IF n > LogFloor(c) THEN c.max
  ELSE LET scaled == c.min * Pow(c.num, n)
           d == IF c.jt # 0
                THEN ((10 * RandomSteps + c.jt * (2 * r - RandomSteps)) * scaled)
                       \div (10 * RandomSteps * Pow(c.den, n))
                ELSE scaled \div Pow(c.den, n)
       IN  Min(d, c.max)

InitFrom(options, draw) ==
  /\ config = NewBackoffManager(options)
  /\ listsInFlight = 0
  /\ watchesOpen = 0
  /\ ended = "no"
  /\ delay = NoDelay
  /\ randomized = draw
  /\ emitted = NoEvent
  /\ store = EmptyMap
  /\ hasSynced = "pending"
  /\ sink \in {"informer", "refreshable"}
  /\ agent \in {"none", "alive"}
  /\ aborted = FALSE
  /\ isLastSyncResourceVersionUnavailable = FALSE
  /\ lastSyncResourceVersion = ""
  /\ paginatedResult = FALSE
  /\ stopRequested = FALSE
  /\ attempt = 0
  /\ timeoutId = FALSE
  /\ pendingTimers = 0
  /\ pc = "idle"
  /\ optionsRV = Dead
  /\ pageSize = Dead
  /\ requestRV = Dead
  /\ count = 0
  /\ call = NoCall
  /\ input = NoInput
  /\ replaced = FALSE
  /\ listed = FALSE
  /\ round = 0
  /\ steps = 0

InitWith(options) == InitFrom(options, NoRandomize)

(* the Reflector constructs its BackoffManager without options *)
Init == InitWith(DefaultOptions)

(* ------------------------------ Reflector ----------------------------- *)
(* the unavailable flag is not consulted *)
relistIgnoresUnavailable(unavailable, last) ==
  IF last = "" THEN "0" ELSE last

relistResourceVersion(unavailable, last) ==
  IF unavailable THEN ""
  ELSE IF last = "" THEN "0"
  ELSE last

(* The Reflector takes any sink object.  "informer" is the object literal   *)
(* of Informer.constructor: replace, add, update and delete, delegating to  *)
(* a Store.  "refreshable" is a caller-supplied sink with the same four     *)
(* methods and setRefreshing, which listAndWatch calls before the LIST.     *)
HasSetRefreshing(s) == s = "refreshable"

DeadLocals ==
  /\ optionsRV' = Dead
  /\ pageSize' = Dead
  /\ requestRV' = Dead
  /\ count' = 0

(* BackoffManager.clearTimeout: the timers left when the one that timeoutId *)
(* names is cleared                                                         *)
TimersAfterClear == IF timeoutId THEN pendingTimers - 1 ELSE pendingTimers

(* the timer set by the previous call is left pending *)
durationKeepsTimer ==
  /\ attempt' = attempt + 1
  /\ timeoutId' = TRUE
  /\ pendingTimers' = pendingTimers + 1

(* BackoffManager.duration: replaces the reset timer and increments attempt *)
duration ==
  /\ attempt' = attempt + 1
  /\ timeoutId' = TRUE
  /\ pendingTimers' = TimersAfterClear + 1

ReturnToRunExitsLoop ==
  /\ pc' = "done"
  /\ UNCHANGED backoffVars
  /\ delay' = NoDelay
  /\ DeadLocals

(* run(), after listAndWatch returned or threw.  The value duration()        *)
(* returns is the length of the sleep that pc = "backoff" stands for.       *)
ReturnToRun ==
  /\ IF stopRequested
     THEN /\ pc' = "done"
          /\ UNCHANGED backoffVars
          /\ delay' = NoDelay
     ELSE /\ pc' = "backoff"
          /\ duration
          /\ delay' = [called |-> TRUE, attempt |-> attempt]
  /\ DeadLocals

(* listAndWatch returns; lists and watches are the requests still pending *)
Returns(lists, watches) ==
  /\ ended' = "returned"
  /\ listsInFlight' = lists
  /\ watchesOpen' = watches
  /\ ReturnToRun

(* run() restarts after a throw without calling duration() *)
ThrowsSkipsDuration(lists, watches) ==
  /\ ended' = "threw"
  /\ listsInFlight' = lists
  /\ watchesOpen' = watches
  /\ pc' = IF stopRequested THEN "done" ELSE "backoff"
  /\ UNCHANGED backoffVars
  /\ delay' = NoDelay
  /\ DeadLocals

(* listAndWatch throws *)
Throws(lists, watches) ==
  /\ ended' = "threw"
  /\ listsInFlight' = lists
  /\ watchesOpen' = watches
  /\ ReturnToRun

(* the step neither ends listAndWatch nor calls duration() *)
Continues ==
  /\ ended' = "no"
  /\ delay' = NoDelay

(* pagination is switched off for resourceVersion "0" as well *)
StartListAndWatchUnpagedAtZero ==
  /\ round' = round + 1
  /\ LET rv == relistResourceVersion(isLastSyncResourceVersionUnavailable, lastSyncResourceVersion)
     IN  IF HasSetRefreshing(sink)
         THEN /\ pc' = "list1"
              /\ optionsRV' = rv
              /\ requestRV' = rv
              /\ pageSize' = IF paginatedResult THEN "default"
                             ELSE IF rv # "" THEN "0"
                             ELSE "default"
              /\ count' = 0
              /\ listsInFlight' = listsInFlight + 1
              /\ UNCHANGED <<backoffVars, watchesOpen>>
              /\ Continues
         ELSE Throws(listsInFlight, watchesOpen)

(* listAndWatch up to the first await *)
StartListAndWatch ==
  /\ round' = round + 1
  /\ LET rv == relistResourceVersion(isLastSyncResourceVersionUnavailable, lastSyncResourceVersion)
     IN  IF HasSetRefreshing(sink)
         THEN /\ pc' = "list1"
              /\ optionsRV' = rv
              /\ requestRV' = rv
              /\ pageSize' = IF paginatedResult THEN "default"
                             ELSE IF rv # "" /\ rv # "0" THEN "0"
                             ELSE "default"
              /\ count' = 0
              /\ listsInFlight' = listsInFlight + 1
              /\ UNCHANGED <<backoffVars, watchesOpen>>
              /\ Continues
         ELSE Throws(listsInFlight, watchesOpen)

(* head of the watch loop of listAndWatch; rv is this.lastSyncResourceVersion *)
NextWatch(rv, lists, watches) ==
  IF stopRequested
  THEN Returns(lists, watches)
  ELSE /\ pc' = "watchOpen"
       /\ requestRV' = rv
       /\ optionsRV' = Dead
       /\ pageSize' = Dead
       /\ count' = 0
       /\ listsInFlight' = lists
       /\ watchesOpen' = watches + 1
       /\ UNCHANGED backoffVars
       /\ Continues

(* a refused connection is handled like any other watch error *)
WatchCatchRelistsOnRefused(err, lists, watches) == Returns(lists, watches)

(* every watch error is answered by the sleep and another watch *)
WatchCatchAlwaysRetries(err, lists, watches) ==
  /\ pc' = "refusedSleep"
  /\ DeadLocals
  /\ listsInFlight' = lists
  /\ watchesOpen' = watches
  /\ UNCHANGED backoffVars
  /\ Continues

(* catch block of the watch loop *)
WatchCatch(err, lists, watches) ==
  IF err = "refused"
  THEN /\ pc' = "refusedSleep"
       /\ DeadLocals
       /\ listsInFlight' = lists
       /\ watchesOpen' = watches
       /\ UNCHANGED backoffVars
       /\ Continues
  ELSE Returns(lists, watches)

(* one more await of run() completes *)
Step ==
  /\ steps < MaxSteps
  /\ steps' = steps + 1

(* run() does not test stopRequested before the first listAndWatch *)
RunIgnoresStop ==
  /\ pc = "idle"
  /\ UNCHANGED steps
  /\ StartListAndWatch
  /\ NoSinkCall
  /\ input' = NoInput
  /\ UNCHANGED <<cursorVars, stopRequested, envVars, listed>>

(* Reflector.run up to the first await; Informer.run calls it *)
Run ==
  /\ pc = "idle"
  /\ UNCHANGED steps
  /\ IF stopRequested
     THEN /\ pc' = "done"
          /\ UNCHANGED <<backoffVars, round, localVars, requestVars>>
          /\ Continues
     ELSE StartListAndWatch
  /\ NoSinkCall
  /\ input' = NoInput
  /\ UNCHANGED <<cursorVars, stopRequested, envVars, listed>>

(* the backoff sleep of run() ends *)
BackoffDone ==
  /\ pc = "backoff"
  /\ Step
  /\ IF stopRequested
     THEN /\ pc' = "done"
          /\ UNCHANGED <<backoffVars, round, localVars, requestVars>>
          /\ Continues
     ELSE StartListAndWatch
  /\ NoSinkCall
  /\ input' = NoInput
  /\ UNCHANGED <<cursorVars, stopRequested, envVars, listed>>

(* paginatedResult is latched whatever resourceVersion the LIST was sent with *)
ListResolvedLatchesAnyPaginated == \E items \in ItemLists, rv \in ResourceVersions, paginated \in BOOLEAN :
  /\ pc = "list1"
  /\ Step
  /\ input' = [kind |-> "list", try |-> "first", items |-> items, rv |-> rv, paginated |-> paginated]
  /\ listed' = TRUE
  /\ paginatedResult' = (paginatedResult \/ paginated)
  /\ isLastSyncResourceVersionUnavailable' = FALSE
  /\ Store_replace(items)
  /\ lastSyncResourceVersion' = rv
  /\ NextWatch(rv, listsInFlight - 1, watchesOpen)
  /\ UNCHANGED <<stopRequested, envVars, round>>

(* the first pager.list of listAndWatch resolves *)
ListResolved == \E items \in ItemLists, rv \in ResourceVersions, paginated \in BOOLEAN :
  /\ pc = "list1"
  /\ Step
  /\ input' = [kind |-> "list", try |-> "first", items |-> items, rv |-> rv, paginated |-> paginated]
  /\ listed' = TRUE
  /\ paginatedResult' = (paginatedResult \/ (optionsRV = "0" /\ paginated))
  /\ isLastSyncResourceVersionUnavailable' = FALSE
  /\ Store_replace(items)
  /\ lastSyncResourceVersion' = rv
  /\ NextWatch(rv, listsInFlight - 1, watchesOpen)
  /\ UNCHANGED <<stopRequested, envVars, round>>

(* a failed LIST resets the cache *)
ListRejectedResetsStore == \E err \in ListErrors :
  /\ pc = "list1"
  /\ Step
  /\ input' = [kind |-> "listError", try |-> "first", err |-> err]
  /\ IF err \in {"expired", "tooLarge"}
     THEN /\ isLastSyncResourceVersionUnavailable' = TRUE
          /\ pc' = "list2"
          /\ requestRV' = relistResourceVersion(TRUE, lastSyncResourceVersion)
          /\ UNCHANGED <<backoffVars, optionsRV, pageSize, count, requestVars>>
          /\ Continues
     ELSE /\ Returns(listsInFlight - 1, watchesOpen)
          /\ UNCHANGED isLastSyncResourceVersionUnavailable
  /\ Store_replace(<<>>)
  /\ UNCHANGED <<lastSyncResourceVersion, paginatedResult, stopRequested, envVars, round, listed>>

(* the first pager.list of listAndWatch rejects; after an expired or        *)
(* too-large resourceVersion the retry pager.list is issued in the same step *)
ListRejected == \E err \in ListErrors :
  /\ pc = "list1"
  /\ Step
  /\ input' = [kind |-> "listError", try |-> "first", err |-> err]
  /\ IF err \in {"expired", "tooLarge"}
     THEN /\ isLastSyncResourceVersionUnavailable' = TRUE
          /\ pc' = "list2"
          /\ requestRV' = relistResourceVersion(TRUE, lastSyncResourceVersion)
          /\ UNCHANGED <<backoffVars, optionsRV, pageSize, count, requestVars>>
          /\ Continues
     ELSE /\ Returns(listsInFlight - 1, watchesOpen)
          /\ UNCHANGED isLastSyncResourceVersionUnavailable
  /\ NoSinkCall
  /\ UNCHANGED <<lastSyncResourceVersion, paginatedResult, stopRequested, envVars, round, listed>>

(* the retry pager.list resolves: list is assigned, then the catch block logs and returns *)
RetryResolved == \E items \in ItemLists, rv \in ResourceVersions, paginated \in BOOLEAN :
  /\ pc = "list2"
  /\ Step
  /\ input' = [kind |-> "list", try |-> "retry", items |-> items, rv |-> rv, paginated |-> paginated]
  /\ listed' = TRUE
  /\ Returns(listsInFlight - 1, watchesOpen)
  /\ NoSinkCall
  /\ UNCHANGED <<cursorVars, stopRequested, envVars, round>>

(* an expired retry is retried again *)
RetryRejectedRetriesAgain == \E err \in ListErrors :
  /\ pc = "list2"
  /\ Step
  /\ input' = [kind |-> "listError", try |-> "retry", err |-> err]
  /\ IF err = "expired"
     THEN /\ UNCHANGED <<pc, backoffVars, localVars, requestVars>>
          /\ Continues
     ELSE Returns(listsInFlight - 1, watchesOpen)
  /\ NoSinkCall
  /\ UNCHANGED <<cursorVars, stopRequested, envVars, round, listed>>

(* the retry pager.list rejects *)
RetryRejected == \E err \in ListErrors :
  /\ pc = "list2"
  /\ Step
  /\ input' = [kind |-> "listError", try |-> "retry", err |-> err]
  /\ Returns(listsInFlight - 1, watchesOpen)
  /\ NoSinkCall
  /\ UNCHANGED <<cursorVars, stopRequested, envVars, round, listed>>

(* the watch handler is not awaited: the loop issues the next watch at once *)
WatchOpenedLoops ==
  /\ pc = "watchOpen"
  /\ Step
  /\ NextWatch(lastSyncResourceVersion, listsInFlight, watchesOpen)
  /\ input' = NoInput
  /\ NoSinkCall
  /\ UNCHANGED <<cursorVars, stopRequested, envVars, round, listed>>

(* listWatcher.watch resolves with the stream; watchHandler starts *)
WatchOpened ==
  /\ pc = "watchOpen"
  /\ Step
  /\ pc' = "watching"
  /\ count' = 0
  /\ requestRV' = Dead
  /\ input' = NoInput
  /\ NoSinkCall
  /\ Continues
  /\ UNCHANGED <<cursorVars, stopRequested, backoffVars, optionsRV, pageSize, envVars, round, listed,
                 requestVars>>

(* an expired watch is handled like an expired LIST *)
WatchRejectedMarksUnavailable == \E err \in WatchErrors :
  /\ pc = "watchOpen"
  /\ Step
  /\ input' = [kind |-> "watchError", err |-> err]
  /\ WatchCatch(err, listsInFlight, watchesOpen - 1)
  /\ NoSinkCall
  /\ isLastSyncResourceVersionUnavailable' = (err = "expired")
  /\ UNCHANGED <<lastSyncResourceVersion, paginatedResult, stopRequested, envVars, round, listed>>

(* listWatcher.watch rejects *)
WatchRejected == \E err \in WatchErrors :
  /\ pc = "watchOpen"
  /\ Step
  /\ input' = [kind |-> "watchError", err |-> err]
  /\ WatchCatch(err, listsInFlight, watchesOpen - 1)
  /\ NoSinkCall
  /\ UNCHANGED <<cursorVars, stopRequested, envVars, round, listed>>

(* the cursor is read before the type of the object is compared *)
WatchEventAdvancesOnMismatch == \E ev \in WatchEvents :
  /\ pc = "watching"
  /\ Step
  /\ input' = [kind |-> "event", ev |-> ev]
  /\ IF ev.type \in {"RawError", "ERROR"}
     THEN /\ WatchCatch(ev.err, listsInFlight, watchesOpen - 1)
          /\ NoSinkCall
          /\ UNCHANGED lastSyncResourceVersion
     ELSE /\ IF ev.match
             THEN CASE ev.type = "ADDED" -> Store_add(ev.object)
                    [] ev.type = "MODIFIED" -> Store_update(ev.object)
                    [] ev.type = "DELETED" -> Store_delete(ev.object)
                    [] OTHER -> NoSinkCall
             ELSE NoSinkCall
          /\ lastSyncResourceVersion' =
               IF ev.object.rv # NoResourceVersion THEN ev.object.rv ELSE lastSyncResourceVersion
          /\ count' = count + 1
          /\ Continues
          /\ UNCHANGED <<pc, backoffVars, optionsRV, pageSize, requestRV, requestVars>>
  /\ UNCHANGED <<isLastSyncResourceVersionUnavailable, paginatedResult, stopRequested,
                 envVars, round, listed>>

(* the cursor is assigned the event's resourceVersion even when it is missing *)
WatchEventAssignsMissingRV == \E ev \in WatchEvents :
  /\ pc = "watching"
  /\ Step
  /\ input' = [kind |-> "event", ev |-> ev]
  /\ IF ev.type \in {"RawError", "ERROR"}
     THEN /\ WatchCatch(ev.err, listsInFlight, watchesOpen - 1)
          /\ NoSinkCall
          /\ UNCHANGED lastSyncResourceVersion
     ELSE IF ~ev.match
     THEN /\ NoSinkCall
          /\ count' = count + 1
          /\ Continues
          /\ UNCHANGED <<pc, backoffVars, lastSyncResourceVersion, optionsRV, pageSize, requestRV,
                         requestVars>>
     ELSE /\ CASE ev.type = "ADDED" -> Store_add(ev.object)
              [] ev.type = "MODIFIED" -> Store_update(ev.object)
              [] ev.type = "DELETED" -> Store_delete(ev.object)
              [] OTHER -> NoSinkCall
          /\ lastSyncResourceVersion' = ev.object.rv
          /\ count' = count + 1
          /\ Continues
          /\ UNCHANGED <<pc, backoffVars, optionsRV, pageSize, requestRV, requestVars>>
  /\ UNCHANGED <<isLastSyncResourceVersionUnavailable, paginatedResult, stopRequested,
                 envVars, round, listed>>

(* the cursor is assigned before the sink method is called *)
WatchEventSinkThrowsAfterCursor == \E ev \in WatchEvents, err \in WatchErrors :
  /\ pc = "watching"
  /\ Step
  /\ ev.match
  /\ ev.type \in {"ADDED", "MODIFIED", "DELETED"}
  /\ input' = [kind |-> "sinkThrew", ev |-> ev, err |-> err]
  /\ CASE ev.type = "ADDED" -> Sink_add(ev.object, "throws")
       [] ev.type = "MODIFIED" -> Sink_update(ev.object, "throws")
       [] ev.type = "DELETED" -> Sink_delete(ev.object, "throws")
  /\ lastSyncResourceVersion' =
       IF ev.object.rv # NoResourceVersion THEN ev.object.rv ELSE lastSyncResourceVersion
  /\ WatchCatch(err, listsInFlight, watchesOpen - 1)
  /\ UNCHANGED <<isLastSyncResourceVersionUnavailable, paginatedResult, stopRequested,
                 envVars, round, listed>>

(* one iteration of the for-await loop of watchHandler in which the sink    *)
(* method throws after it changed the Store, as the methods of a sink      *)
(* built like the Informer's do when a listener of the event throws; err   *)
(* is the class the error discriminators give the thrown value             *)
WatchEventSinkThrows == \E ev \in WatchEvents, err \in WatchErrors :
  /\ pc = "watching"
  /\ Step
  /\ ev.match
  /\ ev.type \in {"ADDED", "MODIFIED", "DELETED"}
  /\ input' = [kind |-> "sinkThrew", ev |-> ev, err |-> err]
  /\ CASE ev.type = "ADDED" -> Sink_add(ev.object, "throws")
       [] ev.type = "MODIFIED" -> Sink_update(ev.object, "throws")
       [] ev.type = "DELETED" -> Sink_delete(ev.object, "throws")
  /\ UNCHANGED lastSyncResourceVersion
  /\ WatchCatch(err, listsInFlight, watchesOpen - 1)
  /\ UNCHANGED <<isLastSyncResourceVersionUnavailable, paginatedResult, stopRequested,
                 envVars, round, listed>>

(* one iteration of the for-await loop of watchHandler *)
WatchEvent == \E ev \in WatchEvents :
  /\ pc = "watching"
  /\ Step
  /\ input' = [kind |-> "event", ev |-> ev]
  /\ IF ev.type \in {"RawError", "ERROR"}
     THEN /\ WatchCatch(ev.err, listsInFlight, watchesOpen - 1)
          /\ NoSinkCall
          /\ UNCHANGED lastSyncResourceVersion
     ELSE IF ~ev.match
     THEN /\ NoSinkCall
          /\ count' = count + 1
          /\ Continues
          /\ UNCHANGED <<pc, backoffVars, lastSyncResourceVersion, optionsRV, pageSize, requestRV,
                         requestVars>>
     ELSE /\ CASE ev.type = "ADDED" -> Store_add(ev.object)
              [] ev.type = "MODIFIED" -> Store_update(ev.object)
              [] ev.type = "DELETED" -> Store_delete(ev.object)
              [] OTHER -> NoSinkCall
          /\ lastSyncResourceVersion' =
               IF ev.object.rv # NoResourceVersion THEN ev.object.rv ELSE lastSyncResourceVersion
          /\ count' = count + 1
          /\ Continues
          /\ UNCHANGED <<pc, backoffVars, optionsRV, pageSize, requestRV, requestVars>>
  /\ UNCHANGED <<isLastSyncResourceVersionUnavailable, paginatedResult, stopRequested,
                 envVars, round, listed>>

(* the duration of the watch is not examined *)
WatchClosedIgnoresShort == \E short \in BOOLEAN :
  /\ pc = "watching"
  /\ Step
  /\ input' = [kind |-> "closed", short |-> short]
  /\ NextWatch(lastSyncResourceVersion, listsInFlight, watchesOpen - 1)
  /\ NoSinkCall
  /\ UNCHANGED <<cursorVars, stopRequested, envVars, round, listed>>

(* the stream ended; short: it lasted less than 1000 ms *)
WatchClosed == \E short \in BOOLEAN :
  /\ pc = "watching"
  /\ Step
  /\ input' = [kind |-> "closed", short |-> short]
  /\ IF short /\ count = 0
     THEN WatchCatch("other", listsInFlight, watchesOpen - 1)
     ELSE NextWatch(lastSyncResourceVersion, listsInFlight, watchesOpen - 1)
  /\ NoSinkCall
  /\ UNCHANGED <<cursorVars, stopRequested, envVars, round, listed>>

(* a failed stream resets the cursor *)
WatchFailedClearsCursor == \E err \in WatchErrors :
  /\ pc = "watching"
  /\ Step
  /\ input' = [kind |-> "watchError", err |-> err]
  /\ WatchCatch(err, listsInFlight, watchesOpen - 1)
  /\ NoSinkCall
  /\ lastSyncResourceVersion' = ""
  /\ UNCHANGED <<isLastSyncResourceVersionUnavailable, paginatedResult, stopRequested, envVars, round,
                 listed>>

(* the stream fails: the for-await loop of watchHandler throws *)
WatchFailed == \E err \in WatchErrors :
  /\ pc = "watching"
  /\ Step
  /\ input' = [kind |-> "watchError", err |-> err]
  /\ WatchCatch(err, listsInFlight, watchesOpen - 1)
  /\ NoSinkCall
  /\ UNCHANGED <<cursorVars, stopRequested, envVars, round, listed>>

(* the sleep after a refused watch ends *)
RefusedSleepDone ==
  /\ pc = "refusedSleep"
  /\ Step
  /\ input' = NoInput
  /\ NextWatch(lastSyncResourceVersion, listsInFlight, watchesOpen)
  /\ NoSinkCall
  /\ UNCHANGED <<cursorVars, stopRequested, envVars, round, listed>>

(* Reflector.stop.  It may run at any await of run(), before run() and      *)
(* after an earlier stop().  A destroyed agent does not take back a         *)
(* response or an event that has already arrived, so the pending await may  *)
(* still complete either way.                                               *)
Stop ==
  /\ stopRequested' = TRUE
  /\ agent' = IF agent = "alive" THEN "destroyed" ELSE agent
  /\ timeoutId' = FALSE
  /\ pendingTimers' = TimersAfterClear
  /\ input' = NoInput
  /\ NoSinkCall
  /\ Continues
  /\ UNCHANGED <<cursorVars, attempt, pc, localVars, sink, aborted, config, randomized, budgetVars, listed,
                 requestVars>>

(* BackoffManager.reset, run by the timer that duration() set *)
BackoffReset ==
  /\ timeoutId
  /\ pc # "backoff"
  /\ attempt' = 0
  /\ timeoutId' = FALSE
  /\ pendingTimers' = pendingTimers - 1
  /\ input' = NoInput
  /\ NoSinkCall
  /\ Continues
  /\ UNCHANGED <<cursorVars, stopRequested, pc, localVars, envVars, budgetVars, listed, requestVars>>

(* the cancel handle returned by Informer.run is invoked, or its signal aborts *)
InformerCancel ==
  /\ sink = "informer"
  /\ pc # "idle"
  /\ ~aborted
  /\ aborted' = TRUE
  /\ input' = NoInput
  /\ NoSinkCall
  /\ Continues
  /\ UNCHANGED <<cursorVars, stopRequested, backoffVars, pc, localVars, sink, agent, config, randomized, budgetVars,
                 listed, requestVars>>

Next ==
  \/ Run
  \/ BackoffDone
  \/ ListResolved
  \/ ListRejected
  \/ RetryResolved
  \/ RetryRejected
  \/ WatchOpened
  \/ WatchRejected
  \/ WatchEvent
  \/ WatchClosed
  \/ WatchFailed
  \/ RefusedSleepDone
  \/ Stop
  \/ BackoffReset
  \/ InformerCancel

Spec == Init /\ [][Next]_vars

(* the Reflector with a sink whose listeners may throw *)
NextSinkThrows == Next \/ WatchEventSinkThrows

SpecSinkThrows == Init /\ [][NextSinkThrows]_vars

NextStore == CallAdd \/ CallUpdate \/ CallDelete \/ CallReplace \/ CallClear

SpecStore == Init /\ [][NextStore]_vars

InitInformer == Init /\ sink = "informer"

NextInformer == SinkReplace \/ SinkAdd \/ SinkUpdate \/ SinkDelete

SpecInformer == InitInformer /\ [][NextInformer]_vars

(* Direct calls of the BackoffManager methods by a caller that owns one,    *)
(* constructed with any of the options.                                     *)
InitBackoff == \E options \in BackoffOptions : InitWith(options)

CallDuration == \E r \in RandomDraws :
  /\ attempt < MaxAttempts
  /\ duration
  /\ delay' = [called |-> TRUE, attempt |-> attempt, ms |-> DurationValue(config, attempt, r)]
  /\ UNCHANGED <<storeVars, sinkHist, cursorVars, stopRequested, pc, localVars, envVars, budgetVars,
                 input, listed, requestVars, ended>>

CallClearTimeout ==
  /\ timeoutId
  /\ timeoutId' = FALSE
  /\ pendingTimers' = TimersAfterClear
  /\ delay' = NoDelay
  /\ UNCHANGED <<storeVars, sinkHist, cursorVars, stopRequested, attempt, pc, localVars, envVars,
                 budgetVars, input, listed, requestVars, ended>>

NextBackoff == CallDuration \/ CallClearTimeout \/ BackoffReset

SpecBackoff == InitBackoff /\ [][NextBackoff]_vars

(* ------------------------------ randomize ----------------------------- *)
minWatchTimeout == 300 \* moment.duration(5, 'minutes').asSeconds()
period == 1000         \* moment.duration(1, 'seconds').asMilliseconds()

RandomizeDraws == 0..(RandomizeSteps - 1)

(* Math.round(x) is floor(x + 1/2); here x = d * (k / RandomizeSteps + 1) *)
randomize(d, k) ==
  (2 * d * (k + RandomizeSteps) + RandomizeSteps) \div (2 * RandomizeSteps)

(* one randomize call, with the draw Math.random() returns in this behaviour *)
Randomized(use, d) ==
  /\ randomized' = [called |-> TRUE, use |-> use, duration |-> d, draw |-> randomized.draw,
                    value |-> randomize(d, randomized.draw)]
  /\ UNCHANGED <<storeVars, sinkHist, cursorVars, stopRequested, backoffVars, pc, localVars,
                 sink, agent, aborted, config, budgetVars, input, listed, requestVars, ended, delay>>

(* timeoutSeconds of the options of a watch request *)
WatchTimeoutSeconds == Randomized("timeoutSeconds", minWatchTimeout)

(* the length of the sleep after a connection-refused watch error *)
RefusedSleepMilliseconds == Randomized("refusedSleep", period)

NextRandomize == WatchTimeoutSeconds \/ RefusedSleepMilliseconds

InitRandomize == \E k \in RandomizeDraws : InitFrom(DefaultOptions, [called |-> FALSE, draw |-> k])

SpecRandomize == InitRandomize /\ [][NextRandomize]_vars

(* ------------------------- reference semantics ------------------------ *)
ItemKeys(items) == {items[i].uid : i \in 1..Len(items)}

(* the map a sequence of items denotes: each key maps to the last item carrying it *)
ItemsByKey(items) ==
  [k \in Keys |->
     LET idx == {i \in 1..Len(items) : items[i].uid = k}
     IN  IF idx = {} THEN Absent
         ELSE items[CHOOSE i \in idx : \A j \in idx : j <= i]]

(* the effect a watch event has on the server's set of objects *)
ApplyEvent(m, ev) ==
  CASE ev.type \in {"ADDED", "MODIFIED"} -> [m EXCEPT ![ev.object.uid] = ev.object]
    [] ev.type = "DELETED" -> [m EXCEPT ![ev.object.uid] = Absent]
    [] OTHER -> m

(* an event of the expected type that carries a resourceVersion *)
InScopeEvent(ev) ==
  /\ ev.type \in {"ADDED", "MODIFIED", "DELETED", "BOOKMARK"}
  /\ ev.match
  /\ ev.object.rv # NoResourceVersion

InListAndWatch(p) == p \in {"list1", "list2", "watchOpen", "watching", "refusedSleep"}

(* ------------------------------- claims ------------------------------- *)

(* C1: the store follows the server step by step: every successful LIST     *)
(* response leaves the store equal to the response's items (by key) and the *)
(* cursor equal to the response's resourceVersion; every ADDED / MODIFIED / *)
(* DELETED / BOOKMARK event of the expected type with a resourceVersion     *)
(* leaves the store equal to the previous store with the event applied and  *)
(* the cursor equal to the event's resourceVersion; nothing else changes    *)
(* the store or the cursor.                                                 *)
C1_StoreFollowsListAndEvents ==
  [][/\ input'.kind = "list" =>
          /\ store' = ItemsByKey(input'.items)
          /\ lastSyncResourceVersion' = input'.rv
     /\ (input'.kind = "event" /\ InScopeEvent(input'.ev)) =>
          /\ store' = ApplyEvent(store, input'.ev)
          /\ lastSyncResourceVersion' = input'.ev.object.rv
     /\ input'.kind \notin {"list", "event"} =>
          UNCHANGED <<store, lastSyncResourceVersion>>]_vars

(* C2: after replace(items) the store maps exactly the keys of the items,   *)
(* each to the last item carrying it, and every key that was present before *)
(* and is not the key of an item is absent.                                 *)
C2_ReplaceYieldsItems ==
  [][call'.op = "replace" =>
       /\ listKeys(store') = ItemKeys(call'.items)
       /\ store' = ItemsByKey(call'.items)
       /\ \A k \in listKeys(store) \ ItemKeys(call'.items) : store'[k] = Absent]_vars

C2_Witness ==
  /\ call.op = "replace"
  /\ Len(call.items) = 2
  /\ call.items[1].uid = "a"
  /\ call.items[2].uid = "a"
  /\ call.items[1].rv # call.items[2].rv
  /\ store["a"] = call.items[2]
  /\ store["b"] = Absent

(* C3: hasSynced is pending exactly as long as replace has never been       *)
(* called and is resolved with true in every state after the first replace, *)
(* whatever add, update, delete, clear and replace calls follow.            *)
C3_HasSyncedLatch ==
  /\ hasSynced \in {"pending", "true"}
  /\ replaced <=> hasSynced = "true"

C3_Witness ==
  /\ replaced
  /\ hasSynced = "true"
  /\ call.op = "clear"

(* C4: hasSynced is true only after a LIST request resolved successfully;   *)
(* the Reflector calls replace only in the step that consumes a successful  *)
(* LIST response, and calls add, update or delete only after a replace.     *)
C4_SyncedOnlyAfterList ==
  /\ [](hasSynced = "true" => listed)
  /\ [](replaced => listed)
  /\ [][call'.op = "replace" => input'.kind = "list"]_vars
  /\ [][call'.op \in {"add", "update", "delete"} => replaced]_vars

C4_Witness ==
  /\ listed
  /\ replaced
  /\ hasSynced = "true"
  /\ call.op = "add"

(* C5: when run() is called on an Informer, the LIST request is issued      *)
(* (setRefreshing is available on the sink the Informer supplies).          *)
C5_InformerRunIssuesList ==
  [][(pc = "idle" /\ pc' # "idle" /\ sink = "informer" /\ ~stopRequested) => pc' = "list1"]_vars

(* C6: once stop() has been called the Reflector calls no replace, add,     *)
(* update or delete.                                                        *)
C6_NoSinkCallAfterStop ==
  [][stopRequested => call' = NoCall]_vars

(* C7: aborting the controller of Informer.run stops the Reflector.         *)
C7_CancelPropagates ==
  aborted => stopRequested

(* C8: run() has returned only if stop was requested; while stop is not     *)
(* requested every end of listAndWatch (return or throw) is followed by     *)
(* backoff.duration() and the backoff sleep, and the end of that sleep      *)
(* starts another listAndWatch.                                             *)
C8_RunReturnsOnlyOnStop ==
  /\ [](pc = "done" => stopRequested)
  /\ [][((InListAndWatch(pc) \/ round' # round) /\ ~InListAndWatch(pc') /\ ~stopRequested) =>
          /\ pc' = "backoff"
          /\ attempt' = attempt + 1
          /\ timeoutId']_vars
  /\ [][(pc = "backoff" /\ ~stopRequested /\ (pc' # pc \/ attempt' # attempt)) =>
          round' = round + 1]_vars

C8_Witness ==
  /\ ~stopRequested
  /\ round = 2
  /\ pc = "list1"
  /\ attempt >= 1

(* C9: after stop() every completed await leads to the return of run() (a   *)
(* pending watch may still open its stream and a refused watch may still    *)
(* sleep before the loop exits); no LIST request, no watch request and no   *)
(* backoff sleep is started and backoff.duration() is not called.           *)
C9_NoNewRequestAfterStop ==
  [][stopRequested =>
       /\ pc' = pc \/ pc' \in {"done", "watching", "refusedSleep"}
       /\ attempt' <= attempt]_vars

(* C10: an expired or too-large first LIST is retried once with             *)
(* resourceVersion "", and a successful retry replaces the store with its   *)
(* items in the same step, resolves hasSynced, clears the unavailable flag, *)
(* sets the cursor to its resourceVersion and does not latch                *)
(* paginatedResult.                                                         *)
C10_ExpiredListRecovery ==
  [][/\ (input'.kind = "listError" /\ input'.try = "first" /\ input'.err \in {"expired", "tooLarge"}) =>
          /\ pc' = "list2"
          /\ requestRV' = ""
     /\ (input'.kind = "list" /\ input'.try = "retry") =>
          /\ call' = [op |-> "replace", items |-> input'.items]
          /\ store' = ItemsByKey(input'.items)
          /\ hasSynced' = "true"
          /\ ~isLastSyncResourceVersionUnavailable'
          /\ lastSyncResourceVersion' = input'.rv
          /\ paginatedResult' = paginatedResult]_vars

(* a step in which opening or draining the watch fails with error class e   *)
WatchFailsWith(e) ==
  \/ input'.kind = "watchError" /\ input'.err = e
  \/ input'.kind = "event" /\ input'.ev.type \in {"ERROR", "RawError"} /\ input'.ev.err = e

(* C11 as stated: when a watch stream ends after less than a second without *)
(* an event, listAndWatch throws to run(), and run() backs off unless stop  *)
(* was requested.                                                           *)
C11_ShortWatchThrows ==
  [][(input'.kind = "closed" /\ input'.short /\ count = 0) =>
       /\ ended' = "threw"
       /\ ~stopRequested => (pc' = "backoff" /\ delay'.called)]_vars

(* C11 amended: when a watch stream ends after less than a second without   *)
(* an event, the error watchHandler throws is caught in listAndWatch, which *)
(* returns normally without opening another watch and without touching the *)
(* store or the cursor; run() then calls duration() and sleeps, or returns  *)
(* if stop was requested.                                                   *)
C11_ShortWatchReturns ==
  [][(input'.kind = "closed" /\ input'.short /\ count = 0) =>
       /\ ended' = "returned"
       /\ call' = NoCall
       /\ UNCHANGED <<store, cursorVars>>
       /\ IF stopRequested
          THEN pc' = "done" /\ ~delay'.called
          ELSE pc' = "backoff" /\ delay'.called /\ attempt' = attempt + 1]_vars

C11_Witness ==
  /\ input.kind = "closed"
  /\ input.short
  /\ ended = "returned"
  /\ pc = "backoff"
  /\ delay.called

(* C12: a watch event (other than an ERROR event, which is thrown before    *)
(* the object is looked at) whose object is not of the expected apiVersion  *)
(* and kind changes neither the store nor the cursor, calls no sink method  *)
(* (so no Informer event is emitted), and the handler stays in the same     *)
(* stream for the next event.                                               *)
C12_MismatchedEventSkipped ==
  [][(input'.kind = "event" /\ input'.ev.type \notin {"ERROR", "RawError"} /\ ~input'.ev.match) =>
       /\ UNCHANGED <<store, hasSynced, lastSyncResourceVersion>>
       /\ call' = NoCall
       /\ pc = "watching" /\ pc' = "watching"
       /\ count' = count + 1
       /\ ended' = "no"
       /\ UNCHANGED watchesOpen]_vars

C12_Witness ==
  /\ input.kind = "event"
  /\ input.ev.type = "ADDED"
  /\ ~input.ev.match
  /\ input.ev.object.rv = "2"
  /\ lastSyncResourceVersion = "1"
  /\ store = EmptyMap
  /\ pc = "watching"

(* the sink method that the handler selects for an event type *)
OpOfType(type) ==
  CASE type = "ADDED" -> "add"
    [] type = "MODIFIED" -> "update"
    [] type = "DELETED" -> "delete"
    [] OTHER -> "none"

(* C13: every event is applied in the step that takes it from the stream,   *)
(* by the sink method of its type and with its object; every LIST that      *)
(* resolves is followed in the same step by one replace with its items;     *)
(* replace is called only while the invocation is at a LIST, which it is    *)
(* only before its watch loop, and add, update and delete are called only   *)
(* from the watch loop.                                                     *)
C13_OrderedMutations ==
  [][/\ input'.kind = "list" => call' = [op |-> "replace", items |-> input'.items]
     /\ call'.op = "replace" => (pc \in {"list1", "list2"} /\ input'.kind = "list")
     /\ call'.op \in {"add", "update", "delete"} =>
          /\ pc = "watching"
          /\ input'.kind = "event"
          /\ call'.op = OpOfType(input'.ev.type)
          /\ call'.object = input'.ev.object
     /\ (pc' \in {"list1", "list2"} /\ pc \notin {"list1", "list2"}) =>
          (round' = round + 1 /\ pc \in {"idle", "backoff"})]_vars

(* C14: the cursor changes only in a step that consumes a successful LIST   *)
(* response, to the response's resourceVersion, or in a step that consumes  *)
(* an event of the expected type carrying a resourceVersion, to that        *)
(* resourceVersion; a LIST error, a watch error, an ERROR event, a          *)
(* mismatched event and the end of a stream leave it unchanged.             *)
C14_CursorOnlyFromServer ==
  /\ [](lastSyncResourceVersion \in {""} \cup ResourceVersions)
  /\ [][lastSyncResourceVersion' # lastSyncResourceVersion =>
          \/ /\ input'.kind = "list"
             /\ lastSyncResourceVersion' = input'.rv
          \/ /\ input'.kind = "event"
             /\ input'.ev.type \notin {"ERROR", "RawError"}
             /\ input'.ev.match
             /\ input'.ev.object.rv # NoResourceVersion
             /\ lastSyncResourceVersion' = input'.ev.object.rv]_vars
  /\ [][(\/ input'.kind \in {"listError", "watchError", "closed"}
         \/ input'.kind = "event" /\ input'.ev.type \in {"ERROR", "RawError"}
         \/ input'.kind = "event" /\ ~input'.ev.match) =>
          UNCHANGED lastSyncResourceVersion]_vars

C14_Witness ==
  /\ input.kind = "watchError"
  /\ lastSyncResourceVersion = "2"
  /\ store["a"].rv = "1"
  /\ pc = "backoff"

(* C15: a watch that fails with expired, at its opening or in its stream,   *)
(* ends listAndWatch by a return to run(), with the unavailable flag clear  *)
(* and the cursor as the processed events left it, which is a               *)
(* resourceVersion the server sent; nothing changes the flag or the cursor  *)
(* during the backoff sleep, and the LIST issued at its end carries the     *)
(* cursor as its resourceVersion.                                           *)
C15_WatchExpiredRelistsAtCursor ==
  /\ [](pc \in {"watchOpen", "watching", "refusedSleep"} =>
          /\ ~isLastSyncResourceVersionUnavailable
          /\ lastSyncResourceVersion \in ResourceVersions)
  /\ [][WatchFailsWith("expired") =>
          /\ ~isLastSyncResourceVersionUnavailable'
          /\ lastSyncResourceVersion' = lastSyncResourceVersion
          /\ ended' = "returned"
          /\ pc' = IF stopRequested THEN "done" ELSE "backoff"]_vars
  /\ [][pc = "backoff" =>
          /\ UNCHANGED cursorVars
          /\ pc' \in {"backoff", "done", "list1"}
          /\ (pc' = "list1" /\ ~isLastSyncResourceVersionUnavailable /\ lastSyncResourceVersion # "") =>
               requestRV' = lastSyncResourceVersion]_vars

C15_Witness ==
  /\ input.kind = "watchError"
  /\ input.err = "expired"
  /\ ended = "returned"
  /\ pc = "backoff"
  /\ ~isLastSyncResourceVersionUnavailable
  /\ lastSyncResourceVersion = "2"
  /\ store["a"].rv = "2"

(* C16: while stop is not requested, a watch that fails with connection     *)
(* refused, at its opening or in its stream, is followed by the sleep and   *)
(* then by a watch request with the cursor as resourceVersion; from the     *)
(* failure to that request listAndWatch does not end, no LIST is in flight, *)
(* no sink method is called and duration() is not called.                   *)
C16_RefusedRetriesWatch ==
  /\ [][WatchFailsWith("refused") =>
          /\ pc' = "refusedSleep"
          /\ ended' = "no"
          /\ call' = NoCall
          /\ ~delay'.called
          /\ attempt' = attempt
          /\ listsInFlight' = 0
          /\ UNCHANGED cursorVars]_vars
  /\ [][pc = "refusedSleep" =>
          /\ call' = NoCall
          /\ ~delay'.called
          /\ attempt' <= attempt
          /\ listsInFlight' = 0
          /\ UNCHANGED cursorVars
          /\ \/ pc' = "refusedSleep"
             \/ ~stopRequested /\ pc' = "watchOpen" /\ requestRV' = lastSyncResourceVersion
             \/ stopRequested /\ pc' = "done"]_vars

C16_Witness ==
  /\ pc = "watchOpen"
  /\ input = NoInput
  /\ ~stopRequested
  /\ round = 1
  /\ attempt = 0
  /\ ~timeoutId
  /\ requestRV = lastSyncResourceVersion
  /\ requestRV = "2"
  /\ store["a"].rv = "1"

(* the first ten delays of the default configuration without jitter *)
DefaultSequence == <<800, 1200, 1800, 2700, 4050, 6075, 9112, 13668, 15000, 15000>>

(* C17: without jitter, the duration() call that captures attempt k (the    *)
(* k-th call since construction or the last reset) returns the integer      *)
(* part of min * factor^k, or max if that is smaller; with min 800, max     *)
(* 15000 and factor 1.5 the first ten calls return 800, 1200, 1800, 2700,   *)
(* 4050, 6075, 9112, 13668, 15000, 15000.                                   *)
C17_JitterFreeSequence ==
  (delay.called /\ config.jt = 0) =>
    /\ delay.ms = Min((config.min * Pow(config.num, delay.attempt)) \div Pow(config.den, delay.attempt),
                      config.max)
    /\ (config = [DefaultOptions EXCEPT !.jt = 0] /\ delay.attempt < Len(DefaultSequence)) =>
         delay.ms = DefaultSequence[delay.attempt + 1]

C17_Witness ==
  /\ delay.called
  /\ config = [DefaultOptions EXCEPT !.jt = 0]
  /\ delay.attempt = 7
  /\ delay.ms = 13668
  /\ attempt = 8

(* C18: whatever the options, the jitter and the random draw, duration()    *)
(* returns at most max, and it returns max when the attempt it captured is  *)
(* at least floor(log(max / min) / log(factor)) + 1.                         *)
C18_ClampedToMax ==
  delay.called =>
    /\ delay.ms <= config.max
    /\ delay.attempt >= LogFloor(config) + 1 => delay.ms = config.max

C18_Witness ==
  /\ delay.called
  /\ config.jt = 10
  /\ config.min < config.max
  /\ delay.attempt = LogFloor(config) + 1
  /\ delay.ms = config.max

(* C19: at most one LIST request is in flight, at most one watch request or *)
(* stream is open, and never both; a LIST is in flight exactly while run()  *)
(* awaits it and a watch is open exactly while run() awaits its opening or  *)
(* its next event; replace is called in the step that settles the LIST, and *)
(* add, update and delete in steps that take an event from the open stream. *)
C19_OneRequestAtATime ==
  /\ [](/\ listsInFlight \in {0, 1}
        /\ watchesOpen \in {0, 1}
        /\ listsInFlight + watchesOpen <= 1
        /\ listsInFlight = 1 <=> pc \in {"list1", "list2"}
        /\ watchesOpen = 1 <=> pc \in {"watchOpen", "watching"})
  /\ [][call'.op = "replace" => (listsInFlight = 1 /\ listsInFlight' = 0)]_vars
  /\ [][call'.op \in {"add", "update", "delete"} =>
          (listsInFlight = 0 /\ watchesOpen = 1 /\ watchesOpen' = 1)]_vars

C19_Witness ==
  /\ round = 2
  /\ pc = "watching"
  /\ watchesOpen = 1
  /\ listsInFlight = 0
  /\ call.op = "update"

(* C20: stopRequested, once true, stays true; while it is true no reset     *)
(* timer is pending and the agent is not alive, so another stop() changes   *)
(* nothing of the Reflector, the BackoffManager, the agent or the store; a  *)
(* run() called after stop() returns without starting listAndWatch, issuing *)
(* a request or calling duration().                                         *)
C20_StopIdempotent ==
  /\ [](stopRequested => (~timeoutId /\ agent # "alive"))
  /\ [][stopRequested => stopRequested']_vars
  /\ [][(stopRequested /\ Stop) =>
          UNCHANGED <<storeVars, cursorVars, stopRequested, backoffVars, pc, localVars, envVars,
                      requestVars>>]_vars
  /\ [][(pc = "idle" /\ stopRequested /\ pc' # "idle") =>
          /\ pc' = "done"
          /\ round' = round
          /\ UNCHANGED requestVars
          /\ ~delay'.called]_vars

C20_Witness ==
  /\ stopRequested
  /\ pc = "done"
  /\ round = 0
  /\ listsInFlight = 0
  /\ watchesOpen = 0

(* C21 as stated: for every store and every object, delete called with the *)
(* object that add has just stored gives back the store add started from.   *)
C21_AddDeleteIsNoOp ==
  [][call'.op = "add" => MapDelete(store', call'.object) = store]_vars

(* C21 amended: delete removes the entry under the object's key, which is   *)
(* the one add stored; so add followed by delete gives back the store add   *)
(* started from if that store had no entry under the key, and otherwise     *)
(* that store without its entry under the key.                              *)
C21_AddDeleteRemovesKey ==
  /\ [][call'.op = "delete" => store' = MapDelete(store, call'.object)]_vars
  /\ [][call'.op = "add" =>
          /\ store'[call'.object.uid] = call'.object
          /\ MapDelete(store', call'.object) = [store EXCEPT ![call'.object.uid] = Absent]
          /\ store[call'.object.uid] = Absent => MapDelete(store', call'.object) = store]_vars

C21_Witness ==
  /\ call.op = "delete"
  /\ call.object.uid = "a"
  /\ store["a"] = Absent
  /\ store["b"] # Absent

(* C22: every first LIST of a listAndWatch invocation and every retry LIST  *)
(* is sent with "" if the unavailable flag is set, else with "0" if the     *)
(* cursor is empty, else with the cursor; the first LIST after run() is     *)
(* called on a new Reflector is sent with "0".                              *)
C22_RelistResourceVersion ==
  /\ [][(pc' \in {"list1", "list2"} /\ pc' # pc) =>
          requestRV' = IF isLastSyncResourceVersionUnavailable' THEN ""
                       ELSE IF lastSyncResourceVersion' = "" THEN "0"
                       ELSE lastSyncResourceVersion']_vars
  /\ [][(pc' = "list1" /\ pc' # pc) => optionsRV' = requestRV']_vars
  /\ [][(pc = "idle" /\ pc' = "list1") => requestRV' = "0"]_vars

C22_Witness ==
  /\ pc = "list1"
  /\ isLastSyncResourceVersionUnavailable
  /\ lastSyncResourceVersion = "2"
  /\ requestRV = ""

(* C23: a step in which a LIST rejects calls no sink method, opens no watch *)
(* and leaves the store, the cursor and paginatedResult unchanged; unless   *)
(* it is a first LIST rejecting with expired or too-large, in which case    *)
(* the one retry LIST is issued, the step ends listAndWatch by a return; a  *)
(* first LIST rejecting with another error leaves the unavailable flag      *)
(* unchanged and no LIST in flight; a rejected retry LIST is not retried,   *)
(* and an invocation reaches its retry LIST only from its first LIST.       *)
C23_ListFailureReturns ==
  /\ [][input'.kind = "listError" =>
          /\ call' = NoCall
          /\ UNCHANGED <<store, hasSynced, lastSyncResourceVersion, paginatedResult>>
          /\ watchesOpen' = 0
          /\ ended' # "threw"
          /\ IF input'.try = "first" /\ input'.err \in {"expired", "tooLarge"}
             THEN pc = "list1" /\ pc' = "list2" /\ listsInFlight' = 1 /\ ended' = "no"
             ELSE /\ ended' = "returned"
                  /\ listsInFlight' = 0
                  /\ pc' = IF stopRequested THEN "done" ELSE "backoff"]_vars
  /\ [][(input'.kind = "listError" /\ input'.try = "first" /\ input'.err = "other") =>
          UNCHANGED isLastSyncResourceVersionUnavailable]_vars
  /\ [][(pc' = "list2" /\ pc # "list2") => (pc = "list1" /\ round' = round)]_vars
  /\ [][(pc' = "list1" /\ pc # "list1") => round' = round + 1]_vars

C23_Witness ==
  /\ input = [kind |-> "listError", try |-> "retry", err |-> "expired"]
  /\ ended = "returned"
  /\ pc = "backoff"
  /\ store["a"].rv = "1"
  /\ lastSyncResourceVersion = "2"
  /\ isLastSyncResourceVersionUnavailable

(* C24: paginatedResult is false at first and becomes true exactly in a     *)
(* step that consumes a successful response, with metadata.paginated true,  *)
(* of a LIST sent with resourceVersion "0"; no other step changes it, so it *)
(* is never reset and no LIST sent with another resourceVersion sets it.    *)
C24_PaginatedLatch ==
  /\ [](pc = "idle" => ~paginatedResult)
  /\ [][paginatedResult' =
          (paginatedResult \/ (input'.kind = "list" /\ requestRV = "0" /\ input'.paginated))]_vars

C24_Witness ==
  /\ paginatedResult
  /\ input.kind = "list"
  /\ input.paginated
  /\ round = 1
  /\ pc = "watchOpen"

(* the page size listAndWatch chooses for a relist resourceVersion *)
PageSizeFor(paginated, rv) ==
  IF ~paginated /\ rv \notin {"", "0"} THEN "0" ELSE "default"

(* C25 as stated: every LIST, the retry included, is sent with page size 0  *)
(* exactly when paginatedResult is false and the resourceVersion it is sent *)
(* with is neither "" nor "0", and with the default page size otherwise.    *)
C25_PageSizePerList ==
  [][(pc' \in {"list1", "list2"} /\ pc' # pc) =>
        pageSize' = PageSizeFor(paginatedResult', requestRV')]_vars

(* C25 amended: the first LIST of an invocation is sent with page size 0    *)
(* exactly when paginatedResult is false and its resourceVersion is neither *)
(* "" nor "0", and with the default otherwise; the retry LIST is sent with  *)
(* resourceVersion "" and the page size of the first LIST.                  *)
C25_PageSizePerInvocation ==
  /\ [][(pc' = "list1" /\ pc # "list1") =>
          pageSize' = PageSizeFor(paginatedResult, requestRV')]_vars
  /\ [][(pc' = "list2" /\ pc # "list2") =>
          /\ requestRV' = ""
          /\ pageSize' = pageSize
          /\ pageSize = PageSizeFor(paginatedResult, requestRV)]_vars
  /\ [](pc \in {"list1", "list2"} => pageSize \in {"0", "default"})

C25_Witness ==
  /\ pc = "list2"
  /\ requestRV = ""
  /\ pageSize = "0"
  /\ ~paginatedResult
  /\ lastSyncResourceVersion = "2"

(* C26: an ADDED / MODIFIED / DELETED event of the expected type without a  *)
(* resourceVersion is applied to the store by the sink method of its type,  *)
(* leaves the cursor unchanged and leaves the handler on the same stream;   *)
(* a BOOKMARK event of the expected type with a resourceVersion calls no    *)
(* sink method, leaves the store unchanged and moves the cursor to its      *)
(* resourceVersion.                                                         *)
C26_EventWithoutResourceVersion ==
  /\ [][(/\ input'.kind = "event"
         /\ input'.ev.type \in {"ADDED", "MODIFIED", "DELETED"}
         /\ input'.ev.match
         /\ input'.ev.object.rv = NoResourceVersion) =>
          /\ call' = [op |-> OpOfType(input'.ev.type), object |-> input'.ev.object]
          /\ store' = ApplyEvent(store, input'.ev)
          /\ lastSyncResourceVersion' = lastSyncResourceVersion
          /\ pc' = "watching"
          /\ count' = count + 1
          /\ watchesOpen' = 1
          /\ ended' = "no"]_vars
  /\ [][(/\ input'.kind = "event"
         /\ input'.ev.type = "BOOKMARK"
         /\ input'.ev.match
         /\ input'.ev.object.rv # NoResourceVersion) =>
          /\ call' = NoCall
          /\ store' = store
          /\ lastSyncResourceVersion' = input'.ev.object.rv
          /\ pc' = "watching"]_vars

C26_Witness ==
  /\ input.kind = "event"
  /\ input.ev.type = "ADDED"
  /\ input.ev.match
  /\ input.ev.object = [uid |-> "b", rv |-> NoResourceVersion]
  /\ store["b"] = input.ev.object
  /\ lastSyncResourceVersion = "2"
  /\ pc = "watching"

(* C27: a step that takes an ERROR event or a raw Error from the stream     *)
(* calls no sink method, leaves the store and the cursor unchanged and      *)
(* closes the stream, so that no later step reads an event from it; unless  *)
(* the error is connection refused, the step ends listAndWatch by a return, *)
(* and run() calls duration() and sleeps, or ends if stop was requested;    *)
(* the backoff sleep is left only into the next invocation, whose first     *)
(* step is the LIST, or into the end of run() after a stop.                 *)
C27_ErrorEventEndsStream ==
  /\ [][(input'.kind = "event" /\ input'.ev.type \in {"ERROR", "RawError"}) =>
          /\ call' = NoCall
          /\ UNCHANGED <<store, hasSynced, cursorVars>>
          /\ pc' # "watching"
          /\ watchesOpen' = 0
          /\ IF input'.ev.err = "refused"
             THEN pc' = "refusedSleep" /\ ended' = "no"
             ELSE /\ ended' = "returned"
                  /\ IF stopRequested
                     THEN pc' = "done" /\ ~delay'.called
                     ELSE pc' = "backoff" /\ delay'.called]_vars
  /\ [][(pc' = "watching" /\ pc # "watching") => (pc = "watchOpen" /\ count' = 0)]_vars
  /\ [][(pc = "backoff" /\ pc' # "backoff") =>
          \/ pc' = "list1" /\ round' = round + 1 /\ ~stopRequested
          \/ pc' = "done" /\ stopRequested]_vars

C27_Witness ==
  /\ input.kind = "event"
  /\ input.ev.type = "ERROR"
  /\ input.ev.err = "other"
  /\ ended = "returned"
  /\ pc = "backoff"
  /\ delay.called
  /\ store["a"] # Absent
  /\ lastSyncResourceVersion = "1"

(* C28: every step that starts a listAndWatch invocation other than the     *)
(* first is the end of a backoff sleep; the sleep is entered only by a step *)
(* that ends an invocation, by return or by throw, and calls duration()     *)
(* once; duration() is called in no other step, and an invocation that ends *)
(* while stop is not requested always calls it.                             *)
C28_OneBackoffBetweenInvocations ==
  /\ [][round' # round =>
          /\ round' = round + 1
          /\ IF round = 0 THEN pc = "idle" ELSE pc = "backoff"]_vars
  /\ [][(pc' = "backoff" /\ pc # "backoff") =>
          /\ ended' \in {"returned", "threw"}
          /\ delay'.called]_vars
  /\ [][delay'.called =>
          /\ ended' \in {"returned", "threw"}
          /\ pc' = "backoff"
          /\ attempt' = attempt + 1]_vars
  /\ [][ended' # "no" =>
          IF stopRequested THEN pc' = "done" /\ ~delay'.called
          ELSE pc' = "backoff" /\ delay'.called]_vars
  /\ [](pc = "idle" => round = 0)

C28_Witness ==
  /\ round = 3
  /\ pc = "list1"
  /\ attempt = 2
  /\ timeoutId
  /\ sink = "refreshable"
  /\ listed

(* C29: at most one reset timer is pending, and timeoutId names it; a       *)
(* duration() call leaves exactly one pending and captures the attempt      *)
(* counter as it was; the counter decreases only when the pending timer     *)
(* fires, which sets it to 0 and leaves no timer pending, so that the next  *)
(* duration() call captures attempt 0; while no timer is pending, as after  *)
(* clearTimeout() or stop(), the counter never decreases.                   *)
C29_IdleReset ==
  /\ [](pendingTimers \in {0, 1} /\ (timeoutId <=> pendingTimers = 1))
  /\ [][delay'.called =>
          /\ timeoutId'
          /\ pendingTimers' = 1
          /\ delay'.attempt = attempt
          /\ attempt' = attempt + 1]_vars
  /\ [][attempt' < attempt =>
          /\ timeoutId
          /\ attempt' = 0
          /\ ~timeoutId'
          /\ pendingTimers' = 0
          /\ ~delay'.called]_vars
  /\ [][~timeoutId => attempt' >= attempt]_vars
  /\ [][(stopRequested' /\ ~stopRequested) => (~timeoutId' /\ pendingTimers' = 0)]_vars

C29_Witness ==
  /\ round = 3
  /\ delay.called
  /\ delay.attempt = 0
  /\ attempt = 1
  /\ timeoutId
  /\ pendingTimers = 1

(* factor * (1 - jitter) > 1 + jitter, for factor = num / den and jitter = jt / 10 *)
JitterBelowGrowth(c) == c.num * (10 - c.jt) > c.den * (10 + c.jt)

(* C30 as stated: with any accepted jitter, a duration() call that captures *)
(* attempt k > 0 returns at least what the call that captured attempt k - 1 *)
(* can have returned with any random draw.                                  *)
C30_MonotonicForEveryJitter ==
  (delay.called /\ delay.attempt > 0 /\ config.jt # 0) =>
    \A r \in RandomDraws : delay.ms >= DurationValue(config, delay.attempt - 1, r)

(* C30 amended: the same, for the accepted jitter values with               *)
(* factor * (1 - jitter) > 1 + jitter.                                      *)
C30_MonotonicForSmallJitter ==
  (delay.called /\ delay.attempt > 0 /\ config.jt # 0 /\ JitterBelowGrowth(config)) =>
    \A r \in RandomDraws : delay.ms >= DurationValue(config, delay.attempt - 1, r)

C30_Witness ==
  /\ delay.called
  /\ config = DefaultOptions
  /\ delay.attempt = 3
  /\ delay.ms = 2430
  /\ attempt = 4

(* C31: randomize(d) returns an integer of the half-open range [d, 2d) for  *)
(* every draw: a watch timeoutSeconds is in [300, 600) and a refused sleep  *)
(* is in [1000, 2000) milliseconds.                                         *)
C31_RandomizeHalfOpenRange ==
  randomized.called =>
    /\ randomized.value >= randomized.duration
    /\ randomized.value < 2 * randomized.duration
    /\ randomized.use = "timeoutSeconds" => randomized.value \in 300..599
    /\ randomized.use = "refusedSleep" => randomized.value \in 1000..1999

(* the event name the Informer's sink emits for a sink method *)
EventOfOp(op) ==
  CASE op = "replace" -> "REPLACE"
    [] op = "add" -> "ADD"
    [] op = "update" -> "UPDATE"
    [] op = "delete" -> "DELETE"
    [] OTHER -> "none"

(* C32: every call of replace / add / update / delete of the Informer's     *)
(* sink changes the Store as the Store method of that name does and emits   *)
(* exactly one event, named REPLACE / ADD / UPDATE / DELETE, with the       *)
(* call's argument as payload; the listeners find the Store already         *)
(* changed: the payload under its key for ADD and UPDATE, no entry under    *)
(* its key for DELETE, the items and a resolved hasSynced for REPLACE; and  *)
(* no event is emitted in a step without such a call.                       *)
C32_EmitAfterStoreMutation ==
  /\ [][/\ call'.op \in {"add", "update"} => store' = MapSet(store, call'.object)
        /\ call'.op = "delete" => store' = MapDelete(store, call'.object)
        /\ call'.op = "replace" => store' = ItemsByKey(call'.items) /\ hasSynced' # "pending"]_vars
  /\ [](Len(emitted) = IF call.op \in {"replace", "add", "update", "delete"} THEN 1 ELSE 0)
  /\ [](Len(emitted) = 1 =>
          /\ emitted[1].name = EventOfOp(call.op)
          /\ emitted[1].payload = IF call.op = "replace" THEN call.items ELSE call.object
          /\ emitted[1].store = store
          /\ emitted[1].hasSynced = hasSynced
          /\ emitted[1].name \in {"ADD", "UPDATE"} =>
               emitted[1].store[emitted[1].payload.uid] = emitted[1].payload
          /\ emitted[1].name = "DELETE" =>
               emitted[1].store[emitted[1].payload.uid] = Absent
          /\ emitted[1].name = "REPLACE" =>
               /\ emitted[1].hasSynced = "true"
               /\ emitted[1].store = ItemsByKey(emitted[1].payload))

C32_Witness ==
  /\ Len(emitted) = 1
  /\ emitted[1].name = "ADD"
  /\ emitted[1].payload = [uid |-> "a", rv |-> "2"]
  /\ emitted[1].store["a"].rv = "2"
  /\ emitted[1].store["b"].rv = "1"
  /\ emitted[1].hasSynced = "true"
  /\ call.op = "add"

(* what the code does in a step in which a listener throws, whatever the    *)
(* class of the thrown error: the mutation stays, the cursor and the flags  *)
(* do not change, the stream is closed                                      *)
SinkThrewKeepsMutation ==
  /\ store' = ApplyEvent(store, input'.ev)
  /\ Len(emitted') = 1
  /\ emitted'[1].threw
  /\ emitted'[1].store = store'
  /\ UNCHANGED <<hasSynced, cursorVars>>
  /\ pc' # "watching"
  /\ watchesOpen' = 0
  /\ ended' # "threw"

(* C33 as stated: when a listener throws while the sink handles an ADDED /  *)
(* MODIFIED / DELETED event, the mutation stays in the store, the cursor is *)
(* not advanced, the stream is closed and listAndWatch returns; run() calls *)
(* duration() and sleeps, unless stop was requested.                        *)
C33_SubscriberThrowReturns ==
  [][input'.kind = "sinkThrew" =>
       /\ SinkThrewKeepsMutation
       /\ ended' = "returned"
       /\ IF stopRequested THEN pc' = "done" ELSE pc' = "backoff" /\ delay'.called]_vars

(* C33 amended: the same, unless the thrown error is classified connection  *)
(* refused: then listAndWatch does not return, it sleeps and opens a new    *)
(* watch at the unchanged cursor.  After the backoff sleep the LIST is sent *)
(* with the relist resourceVersion of the unchanged cursor, and run() ends  *)
(* only if stop was requested.                                              *)
C33_SubscriberThrowEndsStream ==
  /\ [][input'.kind = "sinkThrew" =>
          /\ SinkThrewKeepsMutation
          /\ IF input'.err = "refused"
             THEN pc' = "refusedSleep" /\ ended' = "no" /\ ~delay'.called
             ELSE /\ ended' = "returned"
                  /\ IF stopRequested THEN pc' = "done" ELSE pc' = "backoff" /\ delay'.called]_vars
  /\ [][(pc \in {"backoff", "refusedSleep"}) => (store' = store /\ UNCHANGED cursorVars)]_vars
  /\ [][(pc = "backoff" /\ pc' # "backoff") =>
          \/ /\ pc' = "list1"
             /\ ~stopRequested
             /\ requestRV' = IF isLastSyncResourceVersionUnavailable THEN ""
                             ELSE IF lastSyncResourceVersion = "" THEN "0"
                             ELSE lastSyncResourceVersion
          \/ pc' = "done" /\ stopRequested]_vars
  /\ [][(pc = "refusedSleep" /\ pc' # "refusedSleep") =>
          \/ pc' = "watchOpen" /\ ~stopRequested /\ requestRV' = lastSyncResourceVersion
          \/ pc' = "done" /\ stopRequested]_vars
  /\ [][(pc' = "done" /\ pc # "done") => stopRequested]_vars

C33_Witness ==
  /\ input.kind = "sinkThrew"
  /\ input.ev.type = "ADDED"
  /\ input.ev.object = [uid |-> "b", rv |-> "2"]
  /\ input.err = "other"
  /\ store["b"].rv = "2"
  /\ lastSyncResourceVersion = "1"
  /\ Len(emitted) = 1
  /\ emitted[1].threw
  /\ ended = "returned"
  /\ pc = "backoff"

====
